---- MODULE Spec2Model ----
(***************************************************************************)
(* Retrieval-and-generation subsystem of the learning assistant backend:   *)
(* the provider fallback orchestrator (backend/utils/aiService.js), the    *)
(* chunking and embedding pipeline (backend/routes/document.js) and the    *)
(* question answering route (backend/routes/rag.js), with the request     *)
(* rate limiter and the retry routine (tail of backend/routes/classroom.js).*)
(***************************************************************************)
EXTENDS Integers, Sequences, FiniteSets, TLC

VARIABLES
    apiKeys,     \* providers whose credential the AIService constructor found
    provider,    \* this.provider, the configured default provider name
    lastCall,    \* the last direct orchestrator call and what it returned
    docs,        \* the Document collection of one course, in creation order
    pipe,        \* per document, the local state of processDocumentEmbeddings
    ask,         \* the POST /ask/:courseId request in flight, if any
    requests,    \* requestTracker.requests: client -> recorded timestamps
    now,         \* Date.now()
    admitted,    \* history: per client, the timestamps of the requests let through
    limited,     \* the last answer of rateLimitMiddleware
    retry,       \* the callOpenAIWithRetry invocation in progress, if any
    puter        \* the PuterService singleton and the chat calls using it

vars == <<apiKeys, provider, lastCall, docs, pipe, ask,
          requests, now, admitted, limited, retry, puter>>

upstream == <<retry, puter>>

governor == <<requests, now, admitted, limited>>

service == <<apiKeys, provider>>

(***************************************************************************)
(* Providers and error classes                                             *)
(***************************************************************************)

\* The five chat backends, in the fallback order of generateResponse.
ChatPriority == <<"puter", "openrouter", "gemini", "groq", "openai">>

Providers == {ChatPriority[i] : i \in 1..Len(ChatPriority)}

\* The embedding backends, in the order generateEmbedding tries them.
EmbeddingPriority == <<"gemini", "openai">>

\* A value of AI_PROVIDER that names none of the five backends.
UnknownProvider == "other"

\* userPreferences.aiProvider left unset.
NoPreference == "none"

\* What one upstream call can do.  An error is represented by what its
\* message contains: "quota" stands for a message with 'quota', '429' or
\* 'RESOURCE_EXHAUSTED'; "ratelimit" for one whose only signature is
\* 'rate limit'; "other" for a message with none of these.
Outcomes == {"ok", "quota", "ratelimit", "other"}

\* isQuotaError as generateResponse and generateEmbedding compute it.
IsQuotaErrorService(msg) == msg \in {"quota", "ratelimit"}

\* isQuotaError as the routes compute it (no 'rate limit' test).
IsQuotaErrorRoute(msg) == msg = "quota"

(***************************************************************************)
(* generateResponse: chain construction                                    *)
(***************************************************************************)

InChain(chain, p) == \E i \in 1..Len(chain) : chain[i] = p

\* The "add primary provider first" if / else-if ladder.
PrimaryChain(keys, pref) ==
    IF pref \in Providers /\ pref \in keys THEN <<pref>> ELSE <<>>

RECURSIVE AddFallbacks(_, _, _)
\* The five "add fallbacks in priority order" statements, from the i-th on.
AddFallbacks(keys, chain, i) ==
    IF i > Len(ChatPriority) THEN chain
    ELSE LET p == ChatPriority[i]
         IN  IF p \in keys /\ ~InChain(chain, p)
             THEN AddFallbacks(keys, Append(chain, p), i + 1)
             ELSE AddFallbacks(keys, chain, i + 1)

\* Faulty variant: the fallbacks are appended without the "not already in the chain" test.
BuildChainNoDedup(keys, pref) ==
    PrimaryChain(keys, pref) \o SelectSeq(ChatPriority, LAMBDA p : p \in keys)

\* providerChain as generateResponse builds it on every call.
BuildChain(keys, pref) == AddFallbacks(keys, PrimaryChain(keys, pref), 1)

(***************************************************************************)
(* generateResponse: the fallback loop                                     *)
(***************************************************************************)

\* const provider = userPreferences.aiProvider || this.provider
EffectiveProvider(defaultProvider, aiProvider) ==
    IF aiProvider # NoPreference THEN aiProvider ELSE defaultProvider

ChatResult(status, by, err, calls, fallback) ==
    [status |-> status, by |-> by, err |-> err, calls |-> calls,
     fallback |-> fallback]

\* Faulty variant: a quota error of a provider that is not the last one is
\* raised instead of moving on to the next provider.
TryProvidersNoAdvance(chain, i, pref, outs, calls) ==
    IF i > Len(chain)
    THEN ChatResult("error", "none", "allfailed", calls, FALSE)
    ELSE IF outs[chain[i]] = "ok"
         THEN ChatResult("ok", chain[i], "none", Append(calls, chain[i]),
                         chain[i] # pref)
         ELSE ChatResult("error", chain[i], outs[chain[i]],
                         Append(calls, chain[i]), FALSE)

RECURSIVE TryProvidersPastError(_, _, _, _, _)
\* Faulty variant: every error of a provider that is not the last one moves
\* on to the next provider.
TryProvidersPastError(chain, i, pref, outs, calls) ==
    IF i > Len(chain)
    THEN ChatResult("error", "none", "allfailed", calls, FALSE)
    ELSE IF outs[chain[i]] = "ok"
         THEN ChatResult("ok", chain[i], "none", Append(calls, chain[i]),
                         chain[i] # pref)
         ELSE IF i < Len(chain)
              THEN TryProvidersPastError(chain, i + 1, pref, outs,
                                         Append(calls, chain[i]))
              ELSE ChatResult("error", chain[i], outs[chain[i]],
                              Append(calls, chain[i]), FALSE)

RECURSIVE TryProviders(_, _, _, _, _)
\* The for-of loop over providerChain from position i on.  outs[p] is what
\* the call to p does; calls is the list of providers called so far.
TryProviders(chain, i, pref, outs, calls) ==
    IF i > Len(chain)
    THEN ChatResult("error", "none", "allfailed", calls, FALSE)
    ELSE LET p == chain[i]
             called == Append(calls, p)
         IN  IF outs[p] = "ok"
             THEN ChatResult("ok", p, "none", called, p # pref)
             ELSE IF IsQuotaErrorService(outs[p]) /\ i < Len(chain)
                  THEN TryProviders(chain, i + 1, pref, outs, called)
                  ELSE ChatResult("error", p, outs[p], called, FALSE)

\* Faulty variant: the empty chain is not rejected before the loop.
GenerateResponseNoEmptyCheck(keys, defaultProvider, aiProvider, outs) ==
    TryProviders(BuildChain(keys, EffectiveProvider(defaultProvider, aiProvider)),
                 1, EffectiveProvider(defaultProvider, aiProvider), outs, <<>>)

\* generateResponse(messages, context, userPreferences).
GenerateResponse(keys, defaultProvider, aiProvider, outs) ==
    LET pref == EffectiveProvider(defaultProvider, aiProvider)
        chain == BuildChain(keys, pref)
    IN  IF Len(chain) = 0
        THEN ChatResult("error", "none", "noprovider", <<>>, FALSE)
        ELSE TryProviders(chain, 1, pref, outs, <<>>)

(***************************************************************************)
(* generateEmbedding                                                       *)
(***************************************************************************)

\* null in a vector position.  No backend of the model returns an empty
\* array, so the empty tuple is free to stand for null.
Null == <<>>

EmbedResult(status, by, err, calls, vector) ==
    [status |-> status, by |-> by, err |-> err, calls |-> calls,
     vector |-> vector]

\* const providers = [] followed by the two conditional pushes.
EmbeddingProviders(keys) == SelectSeq(EmbeddingPriority, LAMBDA p : p \in keys)

RECURSIVE TryEmbeddingProviders(_, _, _, _, _, _)
\* The for-of loop over providers and the statements after it.
TryEmbeddingProviders(keys, chain, i, outs, vec, calls) ==
    IF i > Len(chain)
    THEN IF "openrouter" \in keys
         THEN EmbedResult("hybrid", "none", "none", calls, Null)
         ELSE EmbedResult("error", "none", "quota", calls, Null)
    ELSE LET p == chain[i]
             called == Append(calls, p)
         IN  IF outs[p] = "ok"
             THEN EmbedResult("ok", p, "none", called, vec)
             ELSE IF IsQuotaErrorService(outs[p])
                  THEN TryEmbeddingProviders(keys, chain, i + 1, outs, vec, called)
                  ELSE EmbedResult("error", p, outs[p], called, Null)

\* Faulty variant: the missing-key error is raised before the hybrid signal
\* is considered.
GenerateEmbeddingThrowsFirst(keys, outs, vec) ==
    IF Len(EmbeddingProviders(keys)) = 0
    THEN EmbedResult("error", "none", "noprovider", <<>>, Null)
    ELSE TryEmbeddingProviders(keys, EmbeddingProviders(keys), 1, outs, vec, <<>>)

\* generateEmbedding(text): "hybrid" is the null return, "noprovider" the
\* 'No API key configured for embedding providers' error.
GenerateEmbedding(keys, outs, vec) ==
    LET chain == EmbeddingProviders(keys)
    IN  IF Len(chain) = 0 /\ "openrouter" \in keys
        THEN EmbedResult("hybrid", "none", "none", <<>>, Null)
        ELSE IF Len(chain) = 0
             THEN EmbedResult("error", "none", "noprovider", <<>>, Null)
             ELSE TryEmbeddingProviders(keys, chain, 1, outs, vec, <<>>)

(***************************************************************************)
(* chunkText                                                               *)
(***************************************************************************)

\* Strings are sequences of one-character strings; " " is whitespace.
Min(a, b) == IF a < b THEN a ELSE b
Max(a, b) == IF a > b THEN a ELSE b

\* String.prototype.slice(start, end), with its treatment of negative indices.
Slice(s, start, end) ==
    LET from == IF start < 0 THEN Max(Len(s) + start, 0) ELSE Min(start, Len(s))
        to == IF end < 0 THEN Max(Len(s) + end, 0) ELSE Min(end, Len(s))
    IN  IF from >= to THEN <<>> ELSE SubSeq(s, from + 1, to)

RECURSIVE TrimStart(_)
TrimStart(s) ==
    IF s # <<>> /\ Head(s) = " " THEN TrimStart(Tail(s)) ELSE s

RECURSIVE TrimEnd(_)
TrimEnd(s) ==
    IF s # <<>> /\ s[Len(s)] = " " THEN TrimEnd(SubSeq(s, 1, Len(s) - 1)) ELSE s

\* String.prototype.trim().
Trim(s) == TrimEnd(TrimStart(s))

\* chunkSize, overlap, maxTextLength and the chunk limit of chunkText, scaled
\* down from 1000, 200, 100000 and 100 to fit the bounded texts.
ChunkSize == 3
Overlap == 1
MaxTextLength == 6
ChunkLimit == 2

RECURSIVE ChunkLoopLateCap(_, _, _)
\* Faulty variant: the chunk limit is tested with > instead of >=.
ChunkLoopLateCap(text, start, chunks) ==
    IF ~(start < Len(text))
    THEN [done |-> TRUE, chunks |-> chunks]
    ELSE LET end == Min(start + ChunkSize, Len(text))
             chunk == Slice(text, start, end)
             pushed == IF Len(Trim(chunk)) > 0
                       THEN Append(chunks, Trim(chunk))
                       ELSE chunks
             next == end - Overlap
         IN  IF next >= Len(text) THEN [done |-> TRUE, chunks |-> pushed]
             ELSE IF Len(pushed) > ChunkLimit
                  THEN [done |-> TRUE, chunks |-> pushed]
                  ELSE IF next = start /\ pushed = chunks
                       THEN [done |-> FALSE, chunks |-> pushed]
                       ELSE ChunkLoopLateCap(text, next, pushed)

RECURSIVE ChunkLoop(_, _, _)
\* The while loop of chunkText from cursor start on.  The loop is
\* deterministic, so an iteration that changes neither the cursor nor the
\* chunk list repeats forever: done = FALSE reports that the call never
\* returns.
ChunkLoop(text, start, chunks) ==
    IF ~(start < Len(text))
    THEN [done |-> TRUE, chunks |-> chunks]
    ELSE LET end == Min(start + ChunkSize, Len(text))
             chunk == Slice(text, start, end)
             pushed == IF Len(Trim(chunk)) > 0
                       THEN Append(chunks, Trim(chunk))
                       ELSE chunks
             next == end - Overlap
         IN  IF next >= Len(text) THEN [done |-> TRUE, chunks |-> pushed]
             ELSE IF Len(pushed) >= ChunkLimit
                  THEN [done |-> TRUE, chunks |-> pushed]
                  ELSE IF next = start /\ pushed = chunks
                       THEN [done |-> FALSE, chunks |-> pushed]
                       ELSE ChunkLoop(text, next, pushed)

\* chunkText(text) with the default chunkSize and overlap.
ChunkText(text) ==
    ChunkLoop(IF Len(text) > MaxTextLength
              THEN Slice(text, 0, MaxTextLength) ELSE text, 0, <<>>)

(***************************************************************************)
(* Direct calls of the orchestrator                                        *)
(***************************************************************************)

\* The vectors an embedding backend may return (all have an integer norm).
Vectors == {<<1, 0>>, <<3, 4>>}

NoCall == [op |-> "none"]

\* The clients (req.ip) that send requests.
Clients == {"ip1", "ip2"}

\* new Map()
EmptyMap == [ip \in {} |-> <<>>]

\* rateLimitMiddleware has answered no request yet.
NoAnswer == [ip |-> "none", status |-> 0, inWindow |-> 0]

\* The constructor: the credentials and AI_PROVIDER come from the environment.
InitService ==
    /\ apiKeys \in SUBSET Providers
    /\ provider \in Providers \cup {UnknownProvider}

\* No request in flight.  embedCalls and chatCalls count the upstream calls
\* made for the request; embed remembers what generateEmbedding returned or
\* raised, exhausted whether every embedding backend reported a quota error,
\* req what the handler read of the request, lookup whether the document
\* query and the ranking ran ("ok") or threw ("threw").
Idle ==
    [pc |-> "idle", useHybridMode |-> FALSE, questionEmbedding |-> Null,
     relevantChunks |-> <<>>, embedCalls |-> 0, chatCalls |-> 0,
     embed |-> "none", exhausted |-> FALSE, res |-> [status |-> 0],
     req |-> [valid |-> FALSE, course |-> "none", member |-> FALSE],
     lookup |-> "none"]

\* No callOpenAIWithRetry invocation in progress.  waits lists the delays
\* slept so far, inFlight the attempts whose apiCall() promise has not
\* settled.
IdleRetry ==
    [pc |-> "idle", maxRetries |-> 0, baseDelay |-> 0, maxDelay |-> 0,
     backoffMultiplier |-> 0, attempt |-> 0, currentDelay |-> 0,
     lastError |-> "undefined", waits |-> <<>>, inFlight |-> {}]

\* Number of concurrent callers of PuterService.generateChatCompletion.
PuterCallers == 3

\* The PuterService constructed with or without PUTER_API_KEY; signIn is the
\* state of the puter.auth.signIn promise, calls the generateChatCompletion
\* calls by caller (issuedAt: the state of signIn when puter.ai.chat was
\* called).
FreshPuter(hasKey) ==
    [initialized |-> FALSE, apiKey |-> hasKey, signIn |-> "none",
     calls |-> [c \in 1..PuterCallers |-> [pc |-> "idle", issuedAt |-> "none"]]]

\* The state after start-up: the service constructed, no document, no call.
Init ==
    /\ InitService
    /\ retry = IdleRetry
    /\ puter = FreshPuter(FALSE)
    /\ lastCall = NoCall
    /\ docs = <<>>
    /\ pipe = <<>>
    /\ ask = Idle
    /\ requests = EmptyMap
    /\ now = 0
    /\ admitted = [ip \in Clients |-> <<>>]
    /\ limited = NoAnswer

\* One call of generateResponse by any caller.
ChatComplete ==
    \E aiProvider \in Providers \cup {NoPreference} :
      \E outs \in [apiKeys -> Outcomes] :
        /\ lastCall = NoCall
        /\ lastCall' =
              [op |-> "chat",
               pref |-> EffectiveProvider(provider, aiProvider),
               chain |-> BuildChain(apiKeys, EffectiveProvider(provider, aiProvider)),
               outs |-> outs,
               res |-> GenerateResponse(apiKeys, provider, aiProvider, outs)]
        /\ UNCHANGED <<upstream, service, governor, docs, pipe, ask>>

\* One call of generateEmbedding by any caller.
Embed ==
    \E outs \in [apiKeys \cap {"gemini", "openai"} -> Outcomes] :
      \E vec \in Vectors :
        /\ lastCall = NoCall
        /\ lastCall' =
              [op |-> "embed",
               pref |-> NoPreference,
               chain |-> EmbeddingProviders(apiKeys),
               outs |-> outs,
               res |-> GenerateEmbedding(apiKeys, outs, vec)]
        /\ UNCHANGED <<upstream, service, governor, docs, pipe, ask>>

\* The caller has consumed the result; the service is idle again.
Return ==
    /\ lastCall # NoCall
    /\ lastCall' = NoCall
    /\ UNCHANGED <<upstream, service, governor, docs, pipe, ask>>

NextOrch == ChatComplete \/ Embed \/ Return

SpecOrch == Init /\ [][NextOrch]_vars

(***************************************************************************)
(* Properties of the direct calls (SpecOrch)                               *)
(***************************************************************************)

QuotaClass == {"quota", "ratelimit"}

\* In the finished call, the providers before position k failed with a
\* quota-class error and the provider at position k succeeded.
QuotaPrefixThenOk(k) ==
    /\ k \in 1..Len(lastCall.chain)
    /\ \A i \in 1..(k - 1) : lastCall.outs[lastCall.chain[i]] \in QuotaClass
    /\ lastCall.outs[lastCall.chain[k]] = "ok"

AllQuotaFail ==
    /\ Len(lastCall.chain) > 0
    /\ \A i \in 1..Len(lastCall.chain) :
           lastCall.outs[lastCall.chain[i]] \in QuotaClass

\* C1 as stated: after a (possibly empty) prefix of quota failures the next
\* provider's success is returned and a fallback is recorded; when every
\* provider of the chain fails with a quota error the call raises.
C1_FallbackAlwaysRecorded ==
    lastCall.op = "chat" =>
      /\ \A k \in 1..Len(lastCall.chain) :
            QuotaPrefixThenOk(k) =>
              /\ lastCall.res.status = "ok"
              /\ lastCall.res.by = lastCall.chain[k]
              /\ lastCall.res.fallback
      /\ AllQuotaFail => lastCall.res.status = "error"

\* C1 amended: after a (possibly empty) prefix of quota failures the next
\* provider's success is returned; a fallback is recorded exactly when that
\* provider is not the preferred one, hence whenever the prefix is not
\* empty; when every provider fails with a quota error the call raises.
C1_FallbackOnQuota ==
    lastCall.op = "chat" =>
      /\ \A k \in 1..Len(lastCall.chain) :
            QuotaPrefixThenOk(k) =>
              /\ lastCall.res.status = "ok"
              /\ lastCall.res.by = lastCall.chain[k]
              /\ lastCall.res.fallback <=> (lastCall.chain[k] # lastCall.pref)
              /\ k > 1 => lastCall.res.fallback
      /\ AllQuotaFail =>
            /\ lastCall.res.status = "error"
            /\ lastCall.res.err \in QuotaClass

C1_Witness ==
    /\ lastCall.op = "chat"
    /\ Len(lastCall.chain) >= 3
    /\ QuotaPrefixThenOk(3)
    /\ lastCall.res.status = "ok"
    /\ lastCall.res.by = lastCall.chain[3]
    /\ lastCall.res.fallback

\* C2 as stated: a provider that is not the last of its chain and fails with
\* a non-quota error does not end the call; the next provider is called.
C2_NonQuotaErrorAdvances ==
    lastCall.op \in {"chat", "embed"} =>
      \A i \in 1..(Len(lastCall.chain) - 1) :
        ( /\ Len(lastCall.res.calls) >= i
          /\ lastCall.res.calls[i] = lastCall.chain[i]
          /\ lastCall.outs[lastCall.chain[i]] = "other" )
        => /\ Len(lastCall.res.calls) > i
           /\ lastCall.res.calls[i + 1] = lastCall.chain[i + 1]

\* Position of a provider in the documented priority order.
Rank(p) == CHOOSE i \in 1..Len(ChatPriority) : ChatPriority[i] = p

\* C3: the chain holds exactly the configured providers, each once, the
\* preferred one first when configured, the others in priority order.
C3_ChainShape ==
    lastCall.op = "chat" =>
      LET chain == lastCall.chain
          first == IF lastCall.pref \in apiKeys THEN 2 ELSE 1
      IN  /\ {chain[i] : i \in 1..Len(chain)} = apiKeys
          /\ Len(chain) = Cardinality(apiKeys)
          /\ lastCall.pref \in apiKeys => chain[1] = lastCall.pref
          /\ \A i, j \in first..Len(chain) :
                i < j => Rank(chain[i]) < Rank(chain[j])

C3_Witness ==
    /\ lastCall.op = "chat"
    /\ lastCall.pref = "groq"
    /\ apiKeys = Providers
    /\ lastCall.chain = <<"groq", "puter", "openrouter", "gemini", "openai">>

\* C4: with no credential configured, generateResponse and generateEmbedding
\* raise the configuration error at once, having called no provider.
C4_NoProviderFailsFast ==
    (lastCall.op \in {"chat", "embed"} /\ apiKeys = {}) =>
      /\ lastCall.res.status = "error"
      /\ lastCall.res.err = "noprovider"
      /\ lastCall.res.calls = <<>>

C4_Witness ==
    /\ lastCall.op = "chat"
    /\ apiKeys = {}
    /\ lastCall.res.err = "noprovider"

(***************************************************************************)
(* The Document collection                                                 *)
(***************************************************************************)

\* Most documents one course holds in the model.
MaxDocs == 1

\* The contents a teacher uploads, all long enough to pass the length
\* validation: one that chunks normally and one that ends in whitespace.
Texts == {<<"a", "b">>, <<"a", " ">>}

\* The paths of documentSchema that the pipeline and the routes touch, and
\* the paths of one element of its embeddings array.
SchemaPaths == {"content", "embeddings", "isProcessed", "isActive"}
EmbeddingPaths == {"chunk", "vector", "chunkIndex"}

\* A field no write has set.
Undefined == "undefined"

\* new Document({...}) followed by save(): the schema defaults apply.
NewDocument(content) ==
    [content |-> content, isActive |-> TRUE, isProcessed |-> FALSE,
     embeddings |-> <<>>, processingError |-> Undefined]

\* One element of the embeddings array as the schema stores it.
CastEmbedding(e) == [f \in EmbeddingPaths |-> e[f]]

\* Document.findByIdAndUpdate(id, update) on a schema in its default strict
\* mode: paths that the schema does not declare are not written.
FindByIdAndUpdate(doc, update) ==
    [f \in DOMAIN doc |->
        IF f \in DOMAIN update /\ f \in SchemaPaths
        THEN IF f = "embeddings"
             THEN [i \in 1..Len(update[f]) |-> CastEmbedding(update[f][i])]
             ELSE update[f]
        ELSE doc[f]]

(***************************************************************************)
(* generateEmbeddings and processDocumentEmbeddings                        *)
(***************************************************************************)

\* Local state of one pipeline run.  exhaustedAt and callsAfter are history:
\* the first chunk whose attempt ended in provider quota exhaustion (0 when
\* none did) and the provider calls made for later chunks.
StartPipeline(chunked) ==
    [pc |-> IF ~chunked.done THEN "hung"
            ELSE IF Len(chunked.chunks) = 0 THEN "write" ELSE "embed",
     chunks |-> chunked.chunks, embeddings |-> <<>>, quotaExceeded |-> FALSE,
     exhaustedAt |-> 0, callsAfter |-> 0, wrote |-> "none"]

FinishedPipeline(wrote) ==
    [pc |-> "done", chunks |-> <<>>, embeddings |-> <<>>,
     quotaExceeded |-> FALSE, exhaustedAt |-> 0, callsAfter |-> 0,
     wrote |-> wrote]

\* The attempt r ended because every embedding provider was out of quota.
QuotaExhausted(r) ==
    \/ r.status = "error" /\ r.err = "quota"
    \/ r.status = "hybrid" /\ Len(r.calls) > 0

\* The error message of the catch block in the chunk loop: the provider's
\* or the service's message, or the TypeError of reading .embedding of null.
ChunkError(r) == IF r.status = "hybrid" THEN "nullresult" ELSE r.err

EmbeddingEntry(chunk, vector, chunkIndex, error) ==
    [chunk |-> chunk, vector |-> vector, chunkIndex |-> chunkIndex,
     error |-> error]

\* One pass of the inner loop body for the next chunk when quotaExceeded is
\* not set: r is what generateEmbedding did for it.
AfterChunk(p, r) ==
    LET k == Len(p.embeddings) + 1
        failed == r.status # "ok"
        isQuotaError == r.status = "error" /\ IsQuotaErrorRoute(r.err)
    IN  [p EXCEPT
           !.embeddings = Append(@, EmbeddingEntry(p.chunks[k],
                             IF failed THEN Null ELSE r.vector, k - 1,
                             IF failed THEN ChunkError(r) ELSE "none")),
           !.quotaExceeded = @ \/ (failed /\ isQuotaError),
           !.exhaustedAt = IF @ = 0 /\ QuotaExhausted(r) THEN k ELSE @,
           !.callsAfter = IF p.exhaustedAt > 0 THEN @ + Len(r.calls) ELSE @,
           !.pc = IF k = Len(p.chunks) THEN "write" ELSE "embed"]

\* The same pass when quotaExceeded is set: the chunk is skipped.
SkipChunk(p) ==
    LET k == Len(p.embeddings) + 1
    IN  [p EXCEPT
           !.embeddings = Append(@, EmbeddingEntry(p.chunks[k], Null, k - 1,
                                                   "quota")),
           !.pc = IF k = Len(p.chunks) THEN "write" ELSE "embed"]

\* embeddings.filter(e => e.vector).length
SuccessCount(embeddings) ==
    Cardinality({i \in 1..Len(embeddings) : embeddings[i].vector # Null})

\* The update of the try block of processDocumentEmbeddings.
TerminalUpdate(embeddings) ==
    [embeddings |-> embeddings,
     isProcessed |-> SuccessCount(embeddings) > 0,
     processingError |-> IF SuccessCount(embeddings) > 0 THEN "null"
                         ELSE "Embedding service quota exceeded"]

\* The update of its catch block.
FailureUpdate == [isProcessed |-> FALSE, processingError |-> "error.message"]

(***************************************************************************)
(* Upload, background processing and deletion                              *)
(***************************************************************************)

\* chunkText is synchronous: a call that never returns keeps the single
\* thread of the process and nothing else runs any more.
Live == \A d \in 1..Len(pipe) : pipe[d].pc # "hung"

\* What document.save() and the synchronous start of
\* processDocumentEmbeddings(document._id, content) leave behind.
CreateDocument(content) ==
    /\ docs' = Append(docs, NewDocument(content))
    /\ pipe' = Append(pipe, StartPipeline(ChunkText(content)))

\* POST /text/:courseId by the course's teacher: the content is trimmed by
\* the validation chain and must not be empty to be saved.
UploadText ==
    \E raw \in Texts :
        /\ Live
        /\ Len(docs) < MaxDocs
        /\ Len(Trim(raw)) > 0
        /\ CreateDocument(Trim(raw))
        /\ UNCHANGED <<upstream, service, governor, lastCall, ask>>

\* POST /upload/:courseId by the course's teacher: the extracted text is
\* stored as it is when it holds a readable character.
UploadFile ==
    \E raw \in Texts :
        /\ Live
        /\ Len(docs) < MaxDocs
        /\ Len(Trim(raw)) > 0
        /\ CreateDocument(raw)
        /\ UNCHANGED <<upstream, service, governor, lastCall, ask>>

\* The next chunk of a running generateEmbeddings: skipped when the quota
\* flag is set, else embedded through generateEmbedding.
EmbedChunk(d) ==
    /\ Live
    /\ pipe[d].pc = "embed"
    /\ IF pipe[d].quotaExceeded
       THEN pipe' = [pipe EXCEPT ![d] = SkipChunk(@)]
       ELSE \E outs \in [apiKeys \cap {"gemini", "openai"} -> Outcomes] :
              \E vec \in Vectors :
                pipe' = [pipe EXCEPT
                           ![d] = AfterChunk(@, GenerateEmbedding(apiKeys, outs, vec))]
    /\ UNCHANGED <<upstream, service, governor, lastCall, docs, ask>>

\* The end of processDocumentEmbeddings: the update of the try block, or,
\* when the store rejects it, the update of the catch block, which the
\* store may reject as well.
PipelineWrite(d) ==
    /\ Live
    /\ pipe[d].pc = "write"
    /\ \E db \in {"ok", "catch", "none"} :
         /\ docs' = [docs EXCEPT ![d] =
                IF db = "ok"
                THEN FindByIdAndUpdate(@, TerminalUpdate(pipe[d].embeddings))
                ELSE IF db = "catch"
                     THEN FindByIdAndUpdate(@, FailureUpdate)
                     ELSE @]
         /\ pipe' = [pipe EXCEPT ![d] = FinishedPipeline(db)]
    /\ UNCHANGED <<upstream, service, governor, lastCall, ask>>

\* DELETE /:documentId by the course's teacher.
DeleteDocument(d) ==
    /\ Live
    /\ docs[d].isActive
    /\ docs' = [docs EXCEPT ![d].isActive = FALSE]
    /\ UNCHANGED <<upstream, service, governor, lastCall, pipe, ask>>

(***************************************************************************)
(* Retrieval                                                               *)
(***************************************************************************)

\* Similarities are carried as hundredths: 60 stands for 0.6.
RECURSIVE Dot(_, _)
Dot(a, b) == IF a = <<>> THEN 0 ELSE Head(a) * Head(b) + Dot(Tail(a), Tail(b))

\* Math.sqrt on the perfect squares that occur as squared norms.
Sqrt(n) == CHOOSE r \in 0..n : r * r = n

\* cosineSimilarity(vectorA, vectorB) for two arrays.
CosineSimilarity(a, b) ==
    IF Len(a) # Len(b) THEN 0
    ELSE (100 * Dot(a, b)) \div (Sqrt(Dot(a, a)) * Sqrt(Dot(b, b)))

\* topK of findRelevantChunks and findRelevantChunksWithLLM, scaled down
\* from 5 to fit the bounded collection.
TopK == 2

RelevantChunk(chunk, similarity, doc) ==
    [chunk |-> chunk, similarity |-> similarity, doc |-> doc]

RECURSIVE InsertBySimilarity(_, _)
InsertBySimilarity(sorted, x) ==
    IF sorted = <<>> THEN <<x>>
    ELSE IF Head(sorted).similarity >= x.similarity
         THEN <<Head(sorted)>> \o InsertBySimilarity(Tail(sorted), x)
         ELSE <<x>> \o sorted

RECURSIVE SortBySimilarity(_)
\* allChunks.sort((a, b) => b.similarity - a.similarity): stable, descending.
SortBySimilarity(chunks) ==
    IF chunks = <<>> THEN <<>>
    ELSE InsertBySimilarity(SortBySimilarity(SubSeq(chunks, 1, Len(chunks) - 1)),
                            chunks[Len(chunks)])

\* array.slice(0, k)
Take(seq, k) == SubSeq(seq, 1, Min(k, Len(seq)))

RECURSIVE ScoredChunksOfDeleted(_, _, _)
\* Faulty variant: the query does not filter on isActive.
ScoredChunksOfDeleted(store, d, queryEmbedding) ==
    IF d > Len(store) THEN <<>>
    ELSE (IF store[d].isProcessed
          THEN [i \in 1..Len(store[d].embeddings) |->
                  RelevantChunk(store[d].embeddings[i].chunk,
                                CosineSimilarity(queryEmbedding,
                                                 store[d].embeddings[i].vector),
                                d)]
          ELSE <<>>)
         \o ScoredChunksOfDeleted(store, d + 1, queryEmbedding)

RECURSIVE ScoredChunks(_, _, _)
\* The nested forEach of findRelevantChunks over the documents from d on.
ScoredChunks(store, d, queryEmbedding) ==
    IF d > Len(store) THEN <<>>
    ELSE (IF store[d].isActive /\ store[d].isProcessed
          THEN [i \in 1..Len(store[d].embeddings) |->
                  RelevantChunk(store[d].embeddings[i].chunk,
                                CosineSimilarity(queryEmbedding,
                                                 store[d].embeddings[i].vector),
                                d)]
          ELSE <<>>)
         \o ScoredChunks(store, d + 1, queryEmbedding)

\* Some chunk that the forEach visits has vector null: reading its length
\* throws a TypeError inside the try block.
ReadsNullVector(store) ==
    \E d \in 1..Len(store) :
        /\ store[d].isActive /\ store[d].isProcessed
        /\ \E i \in 1..Len(store[d].embeddings) :
               store[d].embeddings[i].vector = Null

\* findRelevantChunks(courseId, queryEmbedding): found = FALSE is a rejected
\* Document.find; every exception of the try block yields [].
FindRelevantChunks(store, queryEmbedding, found) ==
    IF ~found \/ ReadsNullVector(store) THEN <<>>
    ELSE Take(SortBySimilarity(ScoredChunks(store, 1, queryEmbedding)), TopK)

\* The chunk length of the hybrid branch's content.match(/.{1,1000}/g),
\* scaled down from 1000.
HybridChunkSize == 3

RECURSIVE MatchChunks(_)
\* content.match(/.{1,n}/g) || [] on a text without line breaks.
MatchChunks(content) ==
    IF content = <<>> THEN <<>>
    ELSE <<Take(content, HybridChunkSize)>>
         \o MatchChunks(SubSeq(content, Min(HybridChunkSize, Len(content)) + 1,
                                Len(content)))

RECURSIVE HybridChunks(_, _)
\* allChunks of the hybrid branch over the active documents from d on.
HybridChunks(store, d) ==
    IF d > Len(store) THEN <<>>
    ELSE (IF store[d].isActive
          THEN LET m == MatchChunks(store[d].content)
               IN  [i \in 1..Len(m) |-> RelevantChunk(Trim(m[i]), 0, d)]
          ELSE <<>>)
         \o HybridChunks(store, d + 1)

\* The chat replies of the model: one without a bracketed list of numbers,
\* and lists of one or two indices, in or out of range.
NoMatch == <<>>
MaxReplyIndex == 2
Replies ==
    {NoMatch} \cup {<<i>> : i \in 0..MaxReplyIndex}
              \cup {<<i, j>> : i, j \in 0..MaxReplyIndex}

\* chunks.slice(0, topK) with the placeholder similarity 0.5.
FirstChunks(allChunks) ==
    [i \in 1..Min(TopK, Len(allChunks)) |->
        RelevantChunk(allChunks[i].chunk, 50, allChunks[i].doc)]

\* What findRelevantChunksWithLLM returns: entries {chunk, index, similarity}.
Selected(chunk, index, similarity) ==
    [chunk |-> chunk, index |-> index, similarity |-> similarity]

\* chunks.slice(0, topK).map((chunk, idx) => ({chunk, index: idx, similarity: 0.5}))
FirstSelected(chunks) ==
    [i \in 1..Min(TopK, Len(chunks)) |-> Selected(chunks[i], i - 1, 50)]

\* Faulty variant: the parsed indices are not cut at topK.
FindRelevantChunksWithLLMUncut(keys, chunks, out, reply) ==
    IF "openrouter" \notin keys
    THEN [threw |-> TRUE, results |-> <<>>]
    ELSE IF out # "ok" \/ reply = NoMatch
         THEN [threw |-> FALSE, results |-> FirstSelected(chunks)]
         ELSE LET indices == SelectSeq(reply, LAMBDA n : n >= 0 /\ n < Len(chunks))
              IN  [threw |-> FALSE,
                   results |-> [i \in 1..Len(indices) |->
                                  Selected(chunks[indices[i] + 1], indices[i], 70)]]

\* findRelevantChunksWithLLM(question, chunks, topK).  out is what the
\* OpenRouter chat call does and reply the list of numbers that the regular
\* expression finds in its answer (NoMatch: none).
FindRelevantChunksWithLLM(keys, chunks, out, reply) ==
    IF "openrouter" \notin keys
    THEN [threw |-> TRUE, results |-> <<>>]
    ELSE IF out # "ok" \/ reply = NoMatch
         THEN [threw |-> FALSE, results |-> FirstSelected(chunks)]
         ELSE LET indices == SelectSeq(reply, LAMBDA n : n >= 0 /\ n < Len(chunks))
                  picked == Take(indices, TopK)
              IN  [threw |-> FALSE,
                   results |-> [i \in 1..Len(picked) |->
                                  Selected(chunks[picked[i] + 1], picked[i], 70)]]

\* The hybrid branch of askQuestion around findRelevantChunksWithLLM: the
\* mapping of its results to the documents, and the catch block.
HybridSelect(keys, allChunks, out, reply) ==
    LET r == FindRelevantChunksWithLLM(
               keys, [i \in 1..Len(allChunks) |-> allChunks[i].chunk], out, reply)
    IN  IF r.threw
        THEN FirstChunks(allChunks)
        ELSE [i \in 1..Len(r.results) |->
                RelevantChunk(r.results[i].chunk, r.results[i].similarity,
                              allChunks[r.results[i].index + 1].doc)]

RECURSIVE SumSimilarity(_)
SumSimilarity(chunks) ==
    IF chunks = <<>> THEN 0
    ELSE Head(chunks).similarity + SumSimilarity(Tail(chunks))

\* Math.round(averageSimilarity * 100) for a non-empty list.
Confidence(chunks) ==
    (2 * SumSimilarity(chunks) + Len(chunks)) \div (2 * Len(chunks))

\* sources: one entry per relevant chunk, with its rounded similarity.
Sources(chunks) ==
    [i \in 1..Len(chunks) |->
        [doc |-> chunks[i].doc, similarity |-> chunks[i].similarity]]

(***************************************************************************)
(* POST /ask/:courseId                                                     *)
(***************************************************************************)

Response(status, kind, sources, confidence, mode) ==
    [status |-> status, kind |-> kind, sources |-> sources,
     confidence |-> confidence, mode |-> mode]

Respond(a, response) == [a EXCEPT !.pc = "responded", !.res = response]

\* A request as the handler reads it: whether the question passes the
\* validator, what Course.findById yields ("error": it rejects) and whether
\* the caller is the teacher or a student.  What the handler does not get to
\* read is left at "unread" / FALSE.
Request(valid, course, member) ==
    [valid |-> valid, course |-> course, member |-> member]

AskRequests ==
    {Request(FALSE, "unread", FALSE), Request(TRUE, "absent", FALSE),
     Request(TRUE, "error", FALSE), Request(TRUE, "found", FALSE),
     Request(TRUE, "found", TRUE)}

\* Faulty variant: the teacher / student test is missing.
BeginRequestNoAccessTest(a, req) ==
    LET b == [a EXCEPT !.req = req]
    IN  IF ~req.valid
        THEN Respond(b, Response(400, "validation", <<>>, 0, "none"))
        ELSE IF req.course = "error"
             THEN Respond(b, Response(500, "failed", <<>>, 0, "none"))
             ELSE IF req.course = "absent"
                  THEN Respond(b, Response(404, "notfound", <<>>, 0, "none"))
                  ELSE [b EXCEPT !.pc = "embed"]

\* validationResult, Course.findById and the teacher / student test; a
\* rejected findById ends in the handler's outer catch.
BeginRequest(a, req) ==
    LET b == [a EXCEPT !.req = req]
    IN  IF ~req.valid
        THEN Respond(b, Response(400, "validation", <<>>, 0, "none"))
        ELSE IF req.course = "error"
             THEN Respond(b, Response(500, "failed", <<>>, 0, "none"))
             ELSE IF req.course = "absent"
                  THEN Respond(b, Response(404, "notfound", <<>>, 0, "none"))
                  ELSE IF ~req.member
                       THEN Respond(b, Response(403, "denied", <<>>, 0, "none"))
                       ELSE [b EXCEPT !.pc = "embed"]

\* The handler up to its first upstream call.
AskBegin ==
    /\ Live
    /\ ask.pc = "idle"
    /\ \E req \in AskRequests : ask' = BeginRequest(ask, req)
    /\ UNCHANGED <<upstream, service, governor, lastCall, docs, pipe>>

\* What generateEmbedding returned ("ok", "hybrid") or the error it raised.
EmbedOutcome(r) == IF r.status = "error" THEN r.err ELSE r.status

\* Faulty variant: every failure of generateEmbedding switches to hybrid mode.
AfterQuestionEmbeddingAlwaysHybrid(a, r) ==
    IF r.status = "ok"
    THEN [a EXCEPT !.pc = "retrieve", !.questionEmbedding = r.vector,
                   !.embedCalls = Len(r.calls), !.embed = EmbedOutcome(r)]
    ELSE [a EXCEPT !.pc = "retrieve", !.useHybridMode = TRUE,
                   !.embedCalls = Len(r.calls), !.embed = EmbedOutcome(r)]

\* The try / catch around aiService.generateEmbedding(question).
AfterQuestionEmbedding(a, r) ==
    LET b == [a EXCEPT !.embedCalls = Len(r.calls), !.embed = EmbedOutcome(r)]
    IN  IF r.status = "ok"
        THEN [b EXCEPT !.pc = "retrieve", !.questionEmbedding = r.vector]
        ELSE IF r.status = "hybrid"
             THEN [b EXCEPT !.pc = "retrieve", !.useHybridMode = TRUE]
             ELSE IF IsQuotaErrorRoute(r.err)
                  THEN [b EXCEPT !.pc = "retrieve", !.useHybridMode = TRUE]
                  ELSE Respond(b, Response(503, "unavailable", <<>>, 0, "none"))

\* Every configured embedding backend answers with a quota-class error.
ExhaustsQuota(keys, outs) ==
    /\ keys \cap {"gemini", "openai"} # {}
    /\ \A p \in keys \cap {"gemini", "openai"} : outs[p] \in {"quota", "ratelimit"}

AskEmbed ==
    /\ Live
    /\ ask.pc = "embed"
    /\ \E outs \in [apiKeys \cap {"gemini", "openai"} -> Outcomes] :
         \E vec \in Vectors :
           ask' = [AfterQuestionEmbedding(ask, GenerateEmbedding(apiKeys, outs, vec))
                     EXCEPT !.exhausted = ExhaustsQuota(apiKeys, outs)]
    /\ UNCHANGED <<upstream, service, governor, lastCall, docs, pipe>>

\* if (relevantChunks.length === 0) ... else go on to the answer.
AfterRetrieval(a, chunks) ==
    IF Len(chunks) = 0
    THEN Respond(a, Response(200, "noinfo", <<>>, 0, "none"))
    ELSE [a EXCEPT !.pc = "generate", !.relevantChunks = chunks]

\* The hybrid branch: Document.find on the active documents, the chunks of
\* their contents, and the selection by the language model.
RetrieveHybrid(found, out, reply) ==
    IF ~found
    THEN Respond([ask EXCEPT !.lookup = "threw"],
                 Response(500, "failed", <<>>, 0, "none"))
    ELSE IF \A d \in 1..Len(docs) : ~docs[d].isActive
         THEN Respond([ask EXCEPT !.lookup = "ok"],
                      Response(200, "nodocs", <<>>, 0, "hybrid"))
         ELSE AfterRetrieval(
                [ask EXCEPT !.lookup = "ok", !.chatCalls =
                    IF "openrouter" \in apiKeys THEN @ + 1 ELSE @],
                HybridSelect(apiKeys, HybridChunks(docs, 1), out, reply))

\* The embedding branch: findRelevantChunks.
RetrieveByEmbedding(found) ==
    AfterRetrieval([ask EXCEPT !.lookup =
                       IF ~found \/ ReadsNullVector(docs) THEN "threw" ELSE "ok"],
                   FindRelevantChunks(docs, ask.questionEmbedding, found))

AskRetrieve ==
    /\ Live
    /\ ask.pc = "retrieve"
    /\ \E found \in BOOLEAN :
         IF ask.useHybridMode
         THEN \E out \in Outcomes :
                \E reply \in IF out = "ok" THEN Replies ELSE {NoMatch} :
                  ask' = RetrieveHybrid(found, out, reply)
         ELSE ask' = RetrieveByEmbedding(found)
    /\ UNCHANGED <<upstream, service, governor, lastCall, docs, pipe>>

\* The try / catch around aiService.generateResponse and the final res.json.
AfterAnswer(a, r) ==
    LET b == [a EXCEPT !.chatCalls = @ + Len(r.calls)]
    IN  IF r.status = "ok"
        THEN Respond(b, Response(200, "answer", Sources(a.relevantChunks),
                                 Confidence(a.relevantChunks),
                                 IF a.useHybridMode THEN "hybrid" ELSE "embedding"))
        ELSE Respond(b, Response(503, "genfailed", <<>>, 0, "none"))

AskGenerate ==
    /\ Live
    /\ ask.pc = "generate"
    /\ \E outs \in [apiKeys -> Outcomes] :
         ask' = AfterAnswer(ask, GenerateResponse(apiKeys, provider, NoPreference, outs))
    /\ UNCHANGED <<upstream, service, governor, lastCall, docs, pipe>>

\* The response has been sent; the next request may arrive.
AskDone ==
    /\ Live
    /\ ask.pc = "responded"
    /\ ask' = Idle
    /\ UNCHANGED <<upstream, service, governor, lastCall, docs, pipe>>

(***************************************************************************)
(* The subsystem                                                           *)
(***************************************************************************)

Next ==
    \/ UploadText
    \/ UploadFile
    \/ \E d \in 1..Len(docs) : EmbedChunk(d)
    \/ \E d \in 1..Len(docs) : PipelineWrite(d)
    \/ \E d \in 1..Len(docs) : DeleteDocument(d)
    \/ AskBegin
    \/ AskEmbed
    \/ AskRetrieve
    \/ AskGenerate
    \/ AskDone

\* The subsystem is explored for every credential set without Puter (for
\* the routes a chat-only backend like Groq) and with AI_PROVIDER left at its
\* default; SpecOrch covers every credential set and every default.
InitSystem ==
    /\ Init
    /\ "puter" \notin apiKeys
    /\ provider = "gemini"

Spec == InitSystem /\ [][Next]_vars

(***************************************************************************)
(* Properties of the subsystem (Spec)                                      *)
(***************************************************************************)

EmbeddingCapable == {"gemini", "openai"}
ChatOnly == {"puter", "openrouter", "groq"}

\* generateEmbedding has returned or raised for the request in flight.
QuestionEmbedded == ask.embed # "none"

\* C5 as stated: with no embedding-capable provider but some chat-only
\* provider configured, embed returns the hybrid signal and the request
\* calls no embedding endpoint.
C5_AnyChatOnlyGivesHybrid ==
    (QuestionEmbedded /\ apiKeys \cap EmbeddingCapable = {}
                      /\ apiKeys \cap ChatOnly # {})
    => /\ ask.embed = "hybrid"
       /\ ask.embedCalls = 0

\* C5 amended: with no embedding-capable provider configured, embed returns
\* the hybrid signal when OpenRouter is configured, and the request then
\* runs in hybrid mode and calls no embedding endpoint up to its response;
\* with only Puter or Groq configured embed raises the missing-key error.
C5_OpenRouterGivesHybrid ==
    (QuestionEmbedded /\ apiKeys \cap EmbeddingCapable = {})
    => /\ ask.embedCalls = 0
       /\ "openrouter" \in apiKeys =>
             /\ ask.embed = "hybrid"
             /\ ask.useHybridMode
             /\ ask.pc = "responded" => ask.res.kind # "unavailable"
       /\ "openrouter" \notin apiKeys =>
             /\ ask.embed = "noprovider"
             /\ ask.pc = "responded"
             /\ ask.res.status = 503

C5_Witness ==
    /\ apiKeys = {"openrouter", "groq"}
    /\ ask.embed = "hybrid"
    /\ ask.pc = "responded"
    /\ ask.res.kind = "answer"
    /\ ask.res.mode = "hybrid"
    /\ ask.embedCalls = 0

\* The request in flight passed validation and the access checks.
Accepted ==
    /\ ask.pc = "responded"
    /\ ask.req = Request(TRUE, "found", TRUE)

\* C6 as stated: while no document of the course is processed, an accepted
\* question is answered without information, with confidence 0 and no
\* sources, and no embedding or chat call is made for it.
C6_EmptyScopeNoProviderCall ==
    (Accepted /\ \A d \in 1..Len(docs) : ~docs[d].isProcessed)
    => /\ ask.res.kind \in {"noinfo", "nodocs"}
       /\ ask.res.confidence = 0
       /\ ask.res.sources = <<>>
       /\ ask.embedCalls = 0
       /\ ask.chatCalls = 0

C8_NoCallAfterQuotaExhaustion ==
    \A d \in 1..Len(pipe) :
      pipe[d].exhaustedAt > 0 =>
        /\ pipe[d].callsAfter = 0
        /\ \A k \in (pipe[d].exhaustedAt + 1)..Len(pipe[d].embeddings) :
              /\ pipe[d].embeddings[k].vector = Null
              /\ pipe[d].embeddings[k].error # "none"

HasVector(doc) ==
    \E i \in 1..Len(doc.embeddings) : doc.embeddings[i].vector # Null

\* C9 as stated: after the terminal write a document is processed exactly
\* when a stored chunk has a vector; unprocessed, it carries an error
\* summary; processed, it carries none.
C9_ProcessedIffVectorWithError ==
    \A d \in 1..Len(docs) :
      (pipe[d].pc = "done" /\ pipe[d].wrote # "none") =>
        /\ docs[d].isProcessed <=> HasVector(docs[d])
        /\ ~docs[d].isProcessed => docs[d].processingError \notin {Undefined, "null"}
        /\ docs[d].isProcessed => docs[d].processingError \in {Undefined, "null"}

\* The collection without the chunks whose vector is null.
WithoutNullChunks(store) ==
    [d \in 1..Len(store) |->
        [store[d] EXCEPT !.embeddings = SelectSeq(@, LAMBDA e : e.vector # Null)]]

\* C10 as stated: embedding-mode retrieval over the stored chunks returns
\* what it returns once the chunks with a null vector are removed.
C10_NullVectorsIgnored ==
    \A q \in Vectors :
      FindRelevantChunks(docs, q, TRUE)
        = FindRelevantChunks(WithoutNullChunks(docs), q, TRUE)

(***************************************************************************)
(* Direct calls of chunkText (SpecChunk)                                   *)
(***************************************************************************)

Alphabet == {"a", "b", " "}

\* Every text of at most MaxTextLength + 1 characters.
AllTexts == UNION {[1..n -> Alphabet] : n \in 0..(MaxTextLength + 1)}

\* textToProcess: the text cut at maxTextLength.
Truncated(text) ==
    IF Len(text) > MaxTextLength THEN Slice(text, 0, MaxTextLength) ELSE text

\* One call of chunkText on any text.
Chunk ==
    \E text \in AllTexts :
      /\ lastCall = NoCall
      /\ lastCall' = [op |-> "chunk", text |-> text, res |-> ChunkText(text)]
      /\ UNCHANGED <<upstream, service, governor, docs, pipe, ask>>

InitChunk ==
    /\ Init
    /\ apiKeys = {}
    /\ provider = "gemini"

NextChunk == Chunk \/ Return

SpecChunk == InitChunk /\ [][NextChunk]_vars

\* chunkText has been called and has returned.
Chunked == lastCall.op = "chunk" /\ lastCall.res.done

IsSubstring(c, t) ==
    \E i \in 0..(Len(t) - Len(c)) : SubSeq(t, i + 1, i + Len(c)) = c

\* C11 as stated: chunkText returns for every text accepted by an upload,
\* also when the final window of the text is whitespace-only.
C11_ChunkTextTerminates ==
    \A d \in 1..Len(pipe) : pipe[d].pc # "hung"

\* C12: chunkText returns at most ChunkLimit chunks, none longer than the
\* window, each a non-empty trimmed substring of the text cut at
\* MaxTextLength.
C12_ChunksBounded ==
    Chunked =>
      /\ Len(lastCall.res.chunks) <= ChunkLimit
      /\ \A k \in 1..Len(lastCall.res.chunks) :
            LET c == lastCall.res.chunks[k]
            IN  /\ Len(c) <= ChunkSize
                /\ c # <<>>
                /\ Trim(c) = c
                /\ IsSubstring(c, Truncated(lastCall.text))

C12_Witness ==
    /\ Chunked
    /\ Len(lastCall.text) > MaxTextLength
    /\ Len(lastCall.res.chunks) = ChunkLimit
    /\ Len(lastCall.res.chunks[1]) = ChunkSize

\* Position i (from 1) of text t lies inside an occurrence of chunk c.
CoveredBy(t, i, c) ==
    \E j \in 0..(Len(t) - Len(c)) :
      /\ SubSeq(t, j + 1, j + Len(c)) = c
      /\ j + 1 <= i
      /\ i <= j + Len(c)

\* C13 as stated: every non-whitespace character of the text cut at
\* MaxTextLength lies in some returned chunk.
C13_ChunksCoverText ==
    Chunked =>
      \A i \in 1..Len(Truncated(lastCall.text)) :
        Truncated(lastCall.text)[i] # " " =>
          \E k \in 1..Len(lastCall.res.chunks) :
            CoveredBy(Truncated(lastCall.text), i, lastCall.res.chunks[k])

(***************************************************************************)
(* Request rate limiter (SpecGovernor)                                     *)
(***************************************************************************)

\* The limit of isRateLimited (10 in the source), config.usage.rateLimitWindow
\* in clock ticks, and the last clock value explored.
MaxRequests == 2
RateLimitWindow == 2
MaxClock == 4

\* config.usage.trackRequests.
TrackRequests == TRUE

\* timestamps.filter(timestamp => now - timestamp < windowMs)
ValidTimestamps(timestamps, t) ==
    SelectSeq(timestamps, LAMBDA timestamp : t - timestamp < RateLimitWindow)

\* this.requests.get(ip) || []
Timestamps(reqs, ip) == IF ip \in DOMAIN reqs THEN reqs[ip] ELSE <<>>

\* Faulty variant: the sweep drops every entry.
CleanupClears(reqs, t) == [ip \in {} |-> <<>>]

\* requestTracker.cleanup()
Cleanup(reqs, t) ==
    LET kept == {ip \in DOMAIN reqs : ValidTimestamps(reqs[ip], t) # <<>>}
    IN  [ip \in kept |-> ValidTimestamps(reqs[ip], t)]

\* requestTracker.track(ip); sweep is the outcome of Math.random() < 0.01.
Track(reqs, ip, t, sweep) ==
    LET pushed == [x \in DOMAIN reqs \cup {ip} |->
                      IF x = ip THEN Append(Timestamps(reqs, ip), t) ELSE reqs[x]]
    IN  IF sweep THEN Cleanup(pushed, t) ELSE pushed

\* Faulty variant: the limit is tested with > instead of >=.
IsRateLimitedLate(reqs, ip, t) ==
    Len(ValidTimestamps(Timestamps(reqs, ip), t)) > MaxRequests

\* requestTracker.isRateLimited(ip)
IsRateLimited(reqs, ip, t) ==
    Len(ValidTimestamps(Timestamps(reqs, ip), t)) >= MaxRequests

\* rateLimitMiddleware for a request of client ip: 429, or track and next().
RateLimitMiddleware(ip) ==
    \E sweep \in BOOLEAN :
      LET inWindow == Len(ValidTimestamps(admitted[ip], now))
      IN  /\ Len(admitted[ip]) < MaxRequests * MaxClock
          /\ IF ~TrackRequests
             THEN /\ limited' = [ip |-> ip, status |-> 200, inWindow |-> inWindow]
                  /\ admitted' = [admitted EXCEPT ![ip] = Append(@, now)]
                  /\ UNCHANGED requests
             ELSE IF IsRateLimited(requests, ip, now)
                  THEN /\ limited' = [ip |-> ip, status |-> 429, inWindow |-> inWindow]
                       /\ UNCHANGED <<requests, admitted>>
                  ELSE /\ limited' = [ip |-> ip, status |-> 200, inWindow |-> inWindow]
                       /\ requests' = Track(requests, ip, now, sweep)
                       /\ admitted' = [admitted EXCEPT ![ip] = Append(@, now)]
          /\ UNCHANGED <<upstream, service, lastCall, docs, pipe, ask, now>>

\* Time passes.
Tick ==
    /\ now < MaxClock
    /\ now' = now + 1
    /\ UNCHANGED <<upstream, service, lastCall, docs, pipe, ask, requests, admitted, limited>>

InitGovernor ==
    /\ Init
    /\ apiKeys = {}
    /\ provider = "gemini"

NextGovernor == Tick \/ \E ip \in Clients : RateLimitMiddleware(ip)

SpecGovernor == InitGovernor /\ [][NextGovernor]_vars

\* C14: a request is let through only while the client has fewer than
\* MaxRequests admitted requests inside the window, and is answered 429
\* otherwise; so no window holds more than MaxRequests admitted requests of
\* one client.
C14_AdmitsBelowLimitOnly ==
    /\ limited.status = 200 => limited.inWindow < MaxRequests
    /\ limited.status = 429 => limited.inWindow >= MaxRequests
    /\ \A ip \in Clients : \A t \in 0..MaxClock :
          Len(SelectSeq(admitted[ip],
                        LAMBDA ts : ts <= t /\ t - ts < RateLimitWindow))
            <= MaxRequests

C14_Witness ==
    /\ limited.status = 429
    /\ Len(admitted[limited.ip]) > MaxRequests
    /\ limited.ip \notin DOMAIN requests \/ Len(requests[limited.ip]) < Len(admitted[limited.ip])

(***************************************************************************)
(* Retry routine (SpecRetry)                                               *)
(***************************************************************************)

\* The largest maxRetries explored.
MaxRetries == 3

\* What one attempt yields: a result, or an error with its status, message
\* and error.error.type (status 0: the error carries no status).
Outcome(ok, status, message, type) ==
    [ok |-> ok, status |-> status, message |-> message, type |-> type]

Success == Outcome(TRUE, 200, "none", "none")

\* The rejection of timeoutPromise winning the race.
RequestTimeout == Outcome(FALSE, 0, "Request timeout", "none")

UpstreamOutcomes ==
    {Success, RequestTimeout,
     Outcome(FALSE, 0, "other", "insufficient_quota")}
    \cup {Outcome(FALSE, st, "other", "other") : st \in {400, 429, 500, 502, 503}}

\* lastError before any attempt has failed.
NoError == Outcome(FALSE, 0, "undefined", "undefined")

\* Faulty variant: every error is retried.
ShouldRetryAlways(error) == error = error

\* shouldRetry
ShouldRetry(error) ==
    \/ error.status = 429
    \/ error.status = 503
    \/ error.status = 502
    \/ error.message = "Request timeout"
    \/ error.type = "insufficient_quota"

\* What callOpenAIWithRetry returned or threw after how many attempts.
RetryResult(status, error, attempts) ==
    [status |-> status, error |-> error, attempts |-> attempts]

RECURSIVE RetryLoopKeepsFirst(_, _, _, _)
\* Faulty variant: lastError is assigned by the first failure only.
RetryLoopKeepsFirst(maxRetries, outs, attempt, lastError) ==
    IF ~(attempt < maxRetries)
    THEN RetryResult("error", lastError, attempt)
    ELSE LET out == outs[attempt + 1]
             kept == IF attempt = 0 THEN out ELSE lastError
         IN  IF out.ok
             THEN RetryResult("ok", NoError, attempt + 1)
             ELSE IF ~ShouldRetry(out) \/ attempt = maxRetries - 1
                  THEN RetryResult("error", kept, attempt + 1)
                  ELSE RetryLoopKeepsFirst(maxRetries, outs, attempt + 1, kept)

RECURSIVE RetryLoop(_, _, _, _)
\* The for loop of callOpenAIWithRetry from attempt on, and the final throw.
RetryLoop(maxRetries, outs, attempt, lastError) ==
    IF ~(attempt < maxRetries)
    THEN RetryResult("error", lastError, attempt)
    ELSE LET out == outs[attempt + 1]
         IN  IF out.ok
             THEN RetryResult("ok", NoError, attempt + 1)
             ELSE IF ~ShouldRetry(out) \/ attempt = maxRetries - 1
                  THEN RetryResult("error", out, attempt + 1)
                  ELSE RetryLoop(maxRetries, outs, attempt + 1, out)

\* callOpenAIWithRetry(apiCall, {maxRetries}); outs[i] is what the i-th
\* attempt would yield.
CallOpenAIWithRetry(maxRetries, outs) == RetryLoop(maxRetries, outs, 0, NoError)

\* One call of callOpenAIWithRetry by any caller.
CallWithRetry ==
    \E maxRetries \in 0..MaxRetries :
      \E outs \in [1..MaxRetries -> UpstreamOutcomes] :
        /\ lastCall = NoCall
        /\ lastCall' = [op |-> "retry", maxRetries |-> maxRetries, outs |-> outs,
                        res |-> CallOpenAIWithRetry(maxRetries, outs)]
        /\ UNCHANGED <<upstream, service, governor, docs, pipe, ask>>

NextRetry == CallWithRetry \/ Return

SpecRetry == InitChunk /\ [][NextRetry]_vars

Retried == lastCall.op = "retry"

\* C15: one call makes at most maxRetries attempts; it returns at the first
\* successful attempt; when it raises after an attempt, it raises the error
\* of the last attempt made, also when all maxRetries attempts are used up.
C15_BoundedAttemptsLastError ==
    Retried =>
      LET r == lastCall.res
          o == lastCall.outs
      IN  /\ r.attempts <= lastCall.maxRetries
          /\ \A i \in 1..(r.attempts - 1) : ~o[i].ok
          /\ r.status = "ok" => r.attempts >= 1 /\ o[r.attempts].ok
          /\ (r.status = "error" /\ r.attempts >= 1) =>
                ~o[r.attempts].ok /\ r.error = o[r.attempts]
          /\ (\E i \in 1..lastCall.maxRetries : o[i].ok) \/ r.status = "error"

C15_Witness ==
    /\ Retried
    /\ lastCall.maxRetries = MaxRetries
    /\ lastCall.res.attempts = MaxRetries
    /\ lastCall.res.status = "error"
    /\ lastCall.res.error = lastCall.outs[MaxRetries]
    /\ lastCall.outs[1] # lastCall.outs[MaxRetries]

\* The transient classes of the claim: timeout, 429, 502, 503.
Transient(e) ==
    e.status \in {429, 502, 503} \/ e.message = "Request timeout"

\* C16 as stated: every attempt but the last one made ended in a transient
\* error (timeout, 429, 502, 503).
C16_RetriesOnlyTransient ==
    Retried =>
      \A i \in 1..(lastCall.res.attempts - 1) : Transient(lastCall.outs[i])

\* C16 amended: every attempt but the last one made ended in a timeout, a
\* 429, 502 or 503, or an error of type insufficient_quota; an error of any
\* other class ends the call at once and is the error raised.
C16_RetriesTransientOrQuota ==
    Retried =>
      LET r == lastCall.res
          o == lastCall.outs
      IN  /\ \A i \in 1..(r.attempts - 1) :
                Transient(o[i]) \/ o[i].type = "insufficient_quota"
          /\ \A i \in 1..r.attempts :
                (~o[i].ok /\ ~Transient(o[i]) /\ o[i].type # "insufficient_quota")
                => /\ i = r.attempts
                   /\ r.status = "error"
                   /\ r.error = o[i]

C16_Witness ==
    /\ Retried
    /\ lastCall.maxRetries = MaxRetries
    /\ lastCall.res.attempts = 2
    /\ lastCall.outs[1].type = "insufficient_quota"
    /\ lastCall.res.status = "error"
    /\ lastCall.res.error.status = 400

(***************************************************************************)
(* Transient upstream errors in the orchestrator (SpecOrch)                *)
(***************************************************************************)

\* How often provider p was called during the last direct call.
CallsTo(p) ==
    Cardinality({j \in 1..Len(lastCall.res.calls) : lastCall.res.calls[j] = p})

\* C17 as stated: a provider whose call fails with a transient error (a
\* timeout or a 5xx answer, whose messages fall in the class "other") is
\* called again before its failure counts, and the chain then advances.
C17_TransientErrorRetried ==
    lastCall.op \in {"chat", "embed"} =>
      \A i \in 1..Len(lastCall.res.calls) :
        lastCall.outs[lastCall.res.calls[i]] = "other" =>
          /\ CallsTo(lastCall.res.calls[i]) >= 2
          /\ lastCall.res.calls[i] # lastCall.chain[Len(lastCall.chain)] =>
                lastCall.res.by # lastCall.res.calls[i]

(***************************************************************************)
(* Terminal write and detached pipeline (Spec, SpecFair)                   *)
(***************************************************************************)

\* What a reader of document doc takes for a run still in progress: not
\* processed and no error recorded.
LooksUnfinished(doc) ==
    ~doc.isProcessed /\ doc.processingError \in {Undefined, "null"}

\* C18 as stated: no reader finds a document with a non-empty chunk list
\* whose status is still the one of a run in progress.
C18_ChunksOnlyWithTerminalStatus ==
    \A d \in 1..Len(docs) :
      docs[d].embeddings # <<>> => ~LooksUnfinished(docs[d])

\* The event loop runs every pipeline step that is ready: a provider call
\* that has settled, a store update that has settled.
SpecFair ==
    /\ Spec
    /\ WF_vars(\E d \in 1..Len(docs) : EmbedChunk(d))
    /\ WF_vars(\E d \in 1..Len(docs) : PipelineWrite(d))

\* C19 as stated: the pipeline run of every uploaded document eventually
\* finishes with its terminal write.
C19_PipelineEventuallyFinishes ==
    \A d \in 1..MaxDocs :
      (Len(pipe) >= d) ~> (Len(pipe) >= d /\ pipe[d].pc = "done")

(***************************************************************************)
(* Soft-deleted documents (Spec)                                           *)
(***************************************************************************)

\* C20: the chunks that the retrieval step of askQuestion selects, in
\* embedding mode and in hybrid mode, all belong to documents that are
\* active when the step runs, and the sources answered are those chunks.
C20_RetrievalSkipsDeleted ==
    [][ /\ (ask.pc = "retrieve" /\ ask'.pc # "retrieve") =>
             \A k \in 1..Len(ask'.relevantChunks) :
               docs[ask'.relevantChunks[k].doc].isActive
        /\ (ask.pc = "generate" /\ ask'.pc = "responded"
                                /\ ask'.res.kind = "answer") =>
             ask'.res.sources = Sources(ask.relevantChunks) ]_vars

\* A question answered in embedding mode with no information while the only
\* document, processed with a vector by its pipeline run, is soft-deleted.
C20_Witness ==
    /\ Len(docs) = 1
    /\ ~docs[1].isActive
    /\ docs[1].isProcessed
    /\ HasVector(docs[1])
    /\ ~ReadsNullVector([d \in 1..1 |-> [docs[1] EXCEPT !.isActive = TRUE]])
    /\ ask.pc = "responded"
    /\ ask.embed = "ok"
    /\ ask.res.kind = "noinfo"

(***************************************************************************)
(* Rejected questions (Spec)                                               *)
(***************************************************************************)

\* The request in flight is one the handler must turn down.
TurnedDown ==
    /\ ask.pc # "idle"
    /\ ~ask.req.valid \/ ask.req.course = "absent"
                      \/ (ask.req.course = "found" /\ ~ask.req.member)

C22_NoInformationOnlyAfterLookup ==
    (ask.pc = "responded" /\ ask.res.kind \in {"noinfo", "nodocs"})
    => /\ ask.lookup = "ok"
       /\ ask.relevantChunks = <<>>

(***************************************************************************)
(* Direct calls of findRelevantChunksWithLLM (SpecSelect)                  *)
(***************************************************************************)

\* The largest number of chunks handed to the selection.
MaxSelectChunks == 3

Letters == <<"a", "b", "c", "d", "e", "f">>

\* n distinct chunk texts.
ChunkTexts(n) == [i \in 1..n |-> <<Letters[Min(i, Len(Letters))]>>]

\* Replies with up to TopK + 1 numbers, in or out of range.
LongReplies ==
    UNION {[1..k -> 0..(MaxSelectChunks + 1)] : k \in 0..(TopK + 1)}

\* One call of findRelevantChunksWithLLM by any caller.
Select ==
    \E n \in 0..MaxSelectChunks :
      \E out \in Outcomes :
        \E reply \in IF out = "ok" THEN LongReplies ELSE {NoMatch} :
          /\ lastCall = NoCall
          /\ lastCall' = [op |-> "select", chunks |-> ChunkTexts(n),
                          out |-> out, reply |-> reply,
                          res |-> FindRelevantChunksWithLLM(
                                    apiKeys, ChunkTexts(n), out, reply)]
          /\ UNCHANGED <<upstream, service, governor, docs, pipe, ask>>

InitSelect ==
    /\ Init
    /\ provider = "gemini"
    /\ apiKeys \in {{}, {"openrouter"}, {"openrouter", "gemini"}}

NextSelect == Select \/ Return

SpecSelect == InitSelect /\ [][NextSelect]_vars

\* findRelevantChunksWithLLM was called and returned.
SelectedByLLM == lastCall.op = "select" /\ ~lastCall.res.threw

\* C23: the selection returns at most TopK entries, each with an index
\* inside the chunk list and the chunk at that index; the indices are the
\* in-range numbers of the reply in order; without a parseable list, or when
\* the chat call fails, it returns the first min(TopK, n) chunks with
\* similarity 0.5.
C23_SelectionInRange ==
    SelectedByLLM =>
      LET r == lastCall.res.results
          n == Len(lastCall.chunks)
          fallback == lastCall.out # "ok" \/ lastCall.reply = NoMatch
          inRange == SelectSeq(lastCall.reply, LAMBDA x : x < n)
      IN  /\ Len(r) <= TopK
          /\ \A k \in 1..Len(r) :
                /\ r[k].index >= 0 /\ r[k].index < n
                /\ r[k].chunk = lastCall.chunks[r[k].index + 1]
          /\ fallback =>
                /\ Len(r) = Min(TopK, n)
                /\ \A k \in 1..Len(r) : r[k].index = k - 1 /\ r[k].similarity = 50
          /\ ~fallback =>
                /\ Len(r) = Min(TopK, Len(inRange))
                /\ \A k \in 1..Len(r) : r[k].index = inRange[k]

C23_Witness ==
    /\ SelectedByLLM
    /\ lastCall.out = "ok"
    /\ Len(lastCall.reply) = TopK + 1
    /\ lastCall.reply[1] >= Len(lastCall.chunks)
    /\ Len(lastCall.res.results) = TopK

(***************************************************************************)
(* Window positions of chunkText (SpecChunk)                               *)
(***************************************************************************)

\* C24 as stated, for texts without whitespace: the k-th chunk (from 0) is
\* the window at offset k * (ChunkSize - Overlap) of the truncated text, no
\* window position is emitted twice, and a text no longer than the window
\* yields exactly one chunk.
C24_WindowAdvancesByStep ==
    (Chunked /\ \A i \in 1..Len(lastCall.text) : lastCall.text[i] # " ") =>
      LET t == Truncated(lastCall.text)
          c == lastCall.res.chunks
          step == ChunkSize - Overlap
      IN  /\ \A k \in 0..(Len(c) - 1) :
                /\ k * step < Len(t)
                /\ c[k + 1] = Slice(t, k * step, Min(k * step + ChunkSize, Len(t)))
          /\ (Len(t) >= 1 /\ Len(t) <= ChunkSize) => Len(c) = 1

(***************************************************************************)
(* callOpenAIWithRetry step by step (SpecBackoff)                          *)
(***************************************************************************)

\* Largest baseDelay and maxDelay, multiplier and jitter tried, in one unit.
MaxDelayMs == 2

MaxMultiplier == 2

MaxJitter == 1

\* What the apiCall() promise of one attempt settles with.
SettleOutcomes ==
    {Success, Outcome(FALSE, 429, "other", "other"),
     Outcome(FALSE, 400, "other", "other")}

\* Faulty variant: the next delay is not capped.
NextDelayUncapped(currentDelay, backoffMultiplier, jitter, maxDelay) ==
    currentDelay * backoffMultiplier + jitter

\* Math.min(currentDelay * backoffMultiplier + Math.random() * 1000, maxDelay)
NextDelay(currentDelay, backoffMultiplier, jitter, maxDelay) ==
    Min(currentDelay * backoffMultiplier + jitter, maxDelay)

\* The call with its options; the loop is entered when 0 < maxRetries and
\* the first attempt calls apiCall().
RetryStart ==
    \E maxRetries \in 0..MaxRetries, baseDelay \in 0..MaxDelayMs,
       maxDelay \in 0..MaxDelayMs, backoffMultiplier \in 0..MaxMultiplier :
      /\ retry.pc = "idle"
      /\ retry' = [IdleRetry EXCEPT
                     !.pc = IF 0 < maxRetries THEN "racing" ELSE "threw",
                     !.maxRetries = maxRetries, !.baseDelay = baseDelay,
                     !.maxDelay = maxDelay,
                     !.backoffMultiplier = backoffMultiplier,
                     !.currentDelay = baseDelay,
                     !.lastError = NoError,
                     !.inFlight = IF 0 < maxRetries THEN {0} ELSE {}]
      /\ UNCHANGED <<puter, service, governor, lastCall, docs, pipe, ask>>

\* The catch block: break and throw, or log and start the wait of
\* currentDelay.
Caught(r, error) ==
    IF ~ShouldRetry(error) \/ r.attempt = r.maxRetries - 1
    THEN [r EXCEPT !.pc = "threw", !.lastError = error]
    ELSE [r EXCEPT !.pc = "sleeping", !.lastError = error,
                   !.waits = Append(r.waits, r.currentDelay)]

\* apiCall() of the current attempt settles first.
UpstreamSettles ==
    \E out \in SettleOutcomes :
      /\ retry.pc = "racing"
      /\ retry.attempt \in retry.inFlight
      /\ LET r == [retry EXCEPT !.inFlight = retry.inFlight \ {retry.attempt}]
         IN  retry' = IF out.ok THEN [r EXCEPT !.pc = "returned"]
                      ELSE Caught(r, out)
      /\ UNCHANGED <<puter, service, governor, lastCall, docs, pipe, ask>>

\* timeoutPromise rejects first; Promise.race leaves apiCall() running.
TimeoutWins ==
    /\ retry.pc = "racing"
    /\ retry.attempt \in retry.inFlight
    /\ retry' = Caught(retry, RequestTimeout)
    /\ UNCHANGED <<puter, service, governor, lastCall, docs, pipe, ask>>

\* An apiCall() that lost its race settles; nobody reads its result.
AbandonedSettles ==
    \E a \in retry.inFlight :
      /\ retry.pc # "racing" \/ a # retry.attempt
      /\ retry' = [retry EXCEPT !.inFlight = retry.inFlight \ {a}]
      /\ UNCHANGED <<puter, service, governor, lastCall, docs, pipe, ask>>

\* The wait is over: the next delay is computed and the next attempt calls
\* apiCall().
RetryWake ==
    \E jitter \in 0..MaxJitter :
      /\ retry.pc = "sleeping"
      /\ retry' = [retry EXCEPT
                     !.pc = "racing",
                     !.currentDelay = NextDelay(retry.currentDelay,
                                                retry.backoffMultiplier,
                                                jitter, retry.maxDelay),
                     !.attempt = retry.attempt + 1,
                     !.inFlight = retry.inFlight \cup {retry.attempt + 1}]
      /\ UNCHANGED <<puter, service, governor, lastCall, docs, pipe, ask>>

\* The caller has the result or the error.
RetryDone ==
    /\ retry.pc \in {"returned", "threw"}
    /\ retry' = IdleRetry
    /\ UNCHANGED <<puter, service, governor, lastCall, docs, pipe, ask>>

NextBackoff ==
    \/ RetryStart
    \/ UpstreamSettles
    \/ TimeoutWins
    \/ AbandonedSettles
    \/ RetryWake
    \/ RetryDone

SpecBackoff == InitChunk /\ [][NextBackoff]_vars

\* Waits start at the base delay, never decrease and stay within the cap.
WaitsBounded(r) ==
    /\ Len(r.waits) >= 1 => r.waits[1] = r.baseDelay
    /\ \A i \in 1..(Len(r.waits) - 1) : r.waits[i] <= r.waits[i + 1]
    /\ \A i \in 1..Len(r.waits) : r.waits[i] <= r.maxDelay

\* C25 as stated: with a multiplier of at least 1 the waits start at the
\* base delay, never decrease, and none exceeds the maximum delay.
C25_WaitsBoundedForEveryBase ==
    retry.backoffMultiplier >= 1 => WaitsBounded(retry)

\* C25, amended: with a multiplier of at least 1 and a base delay that is
\* not above the maximum delay, the waits start at the base delay, never
\* decrease, and none exceeds the maximum delay, for every jitter.
C25_WaitsBoundedWhenBaseWithinMax ==
    (retry.backoffMultiplier >= 1 /\ retry.baseDelay <= retry.maxDelay)
      => WaitsBounded(retry)

\* Two waits, the second longer than the first and at the cap, which the
\* product with the largest jitter would pass.
C25_Witness ==
    /\ retry.backoffMultiplier >= 1
    /\ retry.baseDelay <= retry.maxDelay
    /\ Len(retry.waits) = 2
    /\ retry.waits[1] < retry.waits[2]
    /\ retry.waits[1] * retry.backoffMultiplier + MaxJitter > retry.maxDelay
    /\ retry.waits[2] = retry.maxDelay

(***************************************************************************)
(* PuterService used by concurrent chat calls (SpecPuter)                  *)
(***************************************************************************)

\* generateChatCompletion called: the synchronous part of initialize().
CallPuter(c) ==
    /\ puter.calls[c].pc = "idle"
    /\ puter' =
         IF puter.initialized
         THEN [puter EXCEPT !.calls[c].pc = "ready"]
         ELSE IF puter.apiKey
              THEN [puter EXCEPT !.initialized = TRUE, !.signIn = "pending",
                                 !.calls[c].pc = "signin"]
              ELSE [puter EXCEPT !.initialized = TRUE, !.calls[c].pc = "ready"]
    /\ UNCHANGED <<retry, service, governor, lastCall, docs, pipe, ask>>

\* puter.auth.signIn settles; initialize() returns after either outcome.
SignInSettles ==
    \E outcome \in {"done", "failed"} :
      /\ puter.signIn = "pending"
      /\ puter' = [puter EXCEPT
                     !.signIn = outcome,
                     !.calls = [c \in 1..PuterCallers |->
                                  IF puter.calls[c].pc = "signin"
                                  THEN [puter.calls[c] EXCEPT !.pc = "ready"]
                                  ELSE puter.calls[c]]]
      /\ UNCHANGED <<retry, service, governor, lastCall, docs, pipe, ask>>

\* After await this.initialize(): puter.ai.chat is called.
IssueChat(c) ==
    /\ puter.calls[c].pc = "ready"
    /\ puter' = [puter EXCEPT !.calls[c] =
                                [pc |-> "chatting", issuedAt |-> puter.signIn]]
    /\ UNCHANGED <<retry, service, governor, lastCall, docs, pipe, ask>>

\* puter.ai.chat settles; the call returns the reply or throws.
ChatSettles(c) ==
    /\ puter.calls[c].pc = "chatting"
    /\ puter' = [puter EXCEPT !.calls[c].pc = "done"]
    /\ UNCHANGED <<retry, service, governor, lastCall, docs, pipe, ask>>

\* Puter enabled and first in the chain, the key configured or not.
InitPuter ==
    /\ apiKeys = {"puter"}
    /\ provider = "puter"
    /\ lastCall = NoCall
    /\ docs = <<>>
    /\ pipe = <<>>
    /\ ask = Idle
    /\ requests = EmptyMap
    /\ now = 0
    /\ admitted = [ip \in Clients |-> <<>>]
    /\ limited = NoAnswer
    /\ retry = IdleRetry
    /\ puter \in {FreshPuter(hasKey) : hasKey \in BOOLEAN}

NextPuter ==
    \/ SignInSettles
    \/ \E c \in 1..PuterCallers : CallPuter(c)
    \/ \E c \in 1..PuterCallers : IssueChat(c)
    \/ \E c \in 1..PuterCallers : ChatSettles(c)

SpecPuter == InitPuter /\ [][NextPuter]_vars

\* C26 as stated: with an API key configured, no chat request is issued
\* while the one-time sign-in is still pending.
C26_NoChatBeforeSignIn ==
    puter.apiKey =>
      \A c \in 1..PuterCallers : puter.calls[c].issuedAt # "pending"

\* C30 as stated: at most one apiCall() of an invocation is unsettled at
\* any moment.
C30_OneUpstreamCallInFlight == Cardinality(retry.inFlight) <= 1

\* C27 as stated: when the selection is handed at least one non-empty chunk
\* and the chat call is made, it returns at least one chunk, whatever the
\* reply.
C27_HybridSelectsSomething ==
    (/\ lastCall # NoCall
     /\ lastCall.op = "select"
     /\ ~lastCall.res.threw
     /\ \E i \in 1..Len(lastCall.chunks) : lastCall.chunks[i] # <<>>)
    => Len(lastCall.res.results) >= 1

(***************************************************************************)
(* Order of the provider calls within one generateResponse (SpecOrch)      *)
(***************************************************************************)

\* C28: the providers called by one generateResponse are the first ones of
\* the chain, in chain order and each once; every call but the last failed
\* with an error that moves on, and the call that returned the result or
\* whose error was raised is the last one made.
C28_CallsInChainOrderOnce ==
    (lastCall # NoCall /\ lastCall.op = "chat") =>
      LET calls == lastCall.res.calls
          chain == lastCall.chain
      IN  /\ Len(calls) <= Len(chain)
          /\ \A i \in 1..Len(calls) : calls[i] = chain[i]
          /\ \A i, j \in 1..Len(calls) : calls[i] = calls[j] => i = j
          /\ \A i \in 1..(Len(calls) - 1) :
                IsQuotaErrorService(lastCall.outs[calls[i]])
          /\ lastCall.res.by # "none" =>
                /\ Len(calls) >= 1
                /\ calls[Len(calls)] = lastCall.res.by

\* Two providers failed over, the third answered, a fourth was left alone.
C28_Witness ==
    /\ lastCall # NoCall
    /\ lastCall.op = "chat"
    /\ lastCall.res.status = "ok"
    /\ Len(lastCall.res.calls) = 3
    /\ Len(lastCall.chain) > 3

(***************************************************************************)
(* Frame of the rate limiter (SpecGovernor)                                *)
(***************************************************************************)

\* C29: a request answered 429 leaves the tracker and the admitted requests
\* as they were; a request of one client changes for no other client
\* whether it is limited, now or at any later time; and a request is
\* answered 429 only while MaxRequests admitted requests of its client are
\* inside the window, so the client is let through as soon as fewer remain.
C29_RejectionLeavesTrackerAlone ==
    [][now' = now =>
         /\ limited'.status = 429 =>
               /\ requests' = requests
               /\ admitted' = admitted
               /\ limited'.inWindow >= MaxRequests
         /\ limited'.status = 200 => limited'.inWindow < MaxRequests
         /\ \A other \in Clients \ {limited'.ip} :
               \A t \in now..MaxClock :
                 IsRateLimited(requests', other, t)
                   = IsRateLimited(requests, other, t)]_vars

\* A client limited, let through again after the window, and limited again
\* while the tracker holds timestamps of the other client.
C29_Witness ==
    /\ limited.status = 429
    /\ Len(admitted[limited.ip]) > MaxRequests
    /\ \E other \in Clients \ {limited.ip} :
          /\ other \in DOMAIN requests
          /\ requests[other] # <<>>

====
